---- MODULE Spec2Model ----
(***************************************************************************)
(* A model of Smoothie (src/src/smoothie.js): a fixed-timestep game loop   *)
(* that runs the host's update function at a fixed rate and renders a Pixi *)
(* display tree with interpolated sprite properties.                       *)
(*                                                                         *)
(* Numbers.  Times are integers counting thirds of a millisecond (Ms       *)
(* units make one millisecond), so that 1000 / fps is exact for the frame  *)
(* rates of FpsValues, and a blend factor is an exact fraction             *)
(* <<num, den>>: the arithmetic of the clock is exact.  A sprite property  *)
(* is a binary floating-point number with Precision significant bits, and  *)
(* each operation on it rounds to the nearest such number, ties to even,   *)
(* as an operation on a JavaScript number does with 53 bits.               *)
(***************************************************************************)
EXTENDS Integers, Sequences, FiniteSets, TLC

VARIABLES
  \* ---- the Smoothie instance (constructor, smoothie.js:60-102)
  _fps,              \* this._fps: a frame rate or undefined
  _frameDuration,    \* this._frameDuration = 1000 / this._fps
  _renderFps,        \* this._renderFps
  _renderDuration,   \* this._renderDuration
  interpolate,       \* this.interpolate
  properties,        \* this.properties: the set of groups that are true
  paused,            \* this.paused
  _startTime,        \* this._startTime: Date.now() of the last sample
  _lag,              \* this._lag
  _lagOffset,        \* this._lagOffset, the fraction <<num, den>>
  _renderStartTime,  \* this._renderStartTime
  \* ---- the display tree (Pixi display objects reached from this.stage)
  children,          \* sprite.children, per node
  live,              \* the sprite's own properties: x, y, rotation, ...
  prev,              \* the _previousX, ... slots that are defined
  curr,              \* the _currentX, ... slots that are defined
  \* ---- the environment: the clock and requestAnimationFrame
  now,               \* Date.now(), measured from construction
  due,               \* time has passed since the last invocation
  advances,          \* how many times the clock has advanced
  pending,           \* callbacks registered with requestAnimationFrame
  started,           \* start() has been called
  \* ---- what the collaborators observed (history)
  updates,           \* calls of this.update so far
  renders,           \* calls of this.renderer.render so far
  pausedTime,        \* clock time passed while paused since the last sample
  spikes,            \* samples of more than a second so far
  obs,               \* what the last rendering invocation computed
  calls,             \* the invocations of gameLoop a host has watched
  made,              \* what new Smoothie was called with, and what came of it
  pc                 \* where an invocation that is followed turn by turn stands

vars == <<_fps, _frameDuration, _renderFps, _renderDuration, interpolate,
          properties, paused, _startTime, _lag, _lagOffset, _renderStartTime,
          children, live, prev, curr, now, due, advances, pending, started,
          updates, renders, pausedTime, spikes,
          obs, calls, made, pc>>

smoothie == <<_fps, _frameDuration, _renderFps, _renderDuration, interpolate,
              properties, paused, _startTime, _lag, _lagOffset,
              _renderStartTime>>
timing   == <<_startTime, _lag, _lagOffset, _renderStartTime>>
scene    == <<children, live, prev, curr>>
clock    == <<now, due, advances>>
history  == <<updates, renders, pausedTime, spikes,
          obs>>

----------------------------------------------------------------------------
(* Bounds of the model *)

\* how many times the clock advances in a run
MaxAdvances == 3
\* how many display refreshes a watched run has
MaxRefreshes == 5
\* the calls of update that are followed turn by turn
MaxTurns == 8
\* significant bits of a sprite property value (53 in a JavaScript number)
Precision == 4

\* thirds of a millisecond: the unit of time that makes 1000 / fps exact
Ms == 3

\* the clock advances by one of these amounts between two invocations
Gaps == {25 * Ms, 1000 * Ms, 1001 * Ms}
\* frame rates given as the fps option or assigned to fps
FpsValues == {12, 30}
\* frame rates given as the renderFps option or assigned to renderFps
RenderFpsValues == {10}

----------------------------------------------------------------------------
(* JavaScript values that may be undefined or NaN *)

Undefined == [t |-> "undefined", v |-> 0]
NaN       == [t |-> "NaN", v |-> 0]
Num(n)    == [t |-> "number", v |-> n]
\* the value of 1000 / 0
Infinity  == [t |-> "Infinity", v |-> 0]
\* the number n / d, for a frame rate that is not a whole number
Ratio(n, d) == [t |-> "ratio", v |-> n, d |-> d]

\* 1000 / value, of the constructor and of the setters of fps and renderFps
PerSecond(value) ==
  IF value.t = "number"
  THEN IF value.v > 0 THEN Num((1000 * Ms) \div value.v)
       ELSE IF value.v = 0 THEN Infinity
       ELSE Num(-((1000 * Ms) \div (-value.v)))
  ELSE IF value.t = "ratio" THEN Num((1000 * Ms * value.d) \div value.v)
  ELSE NaN

RECURSIVE Gcd(_, _)
Gcd(a, b) == IF b = 0 THEN a ELSE Gcd(b, a % b)

\* the number n / d, for d > 0, in lowest terms
Fraction(n, d) ==
  LET g == Gcd(IF n < 0 THEN -n ELSE n, d) IN <<n \div g, d \div g>>

Whole(n)   == <<n, 1>>
Plus(a, b)  ==
  IF a[2] = 1 /\ b[2] = 1 THEN <<a[1] + b[1], 1>>
  ELSE Fraction(a[1] * b[2] + b[1] * a[2], a[2] * b[2])
Minus(a, b) ==
  IF a[2] = 1 /\ b[2] = 1 THEN <<a[1] - b[1], 1>>
  ELSE Fraction(a[1] * b[2] - b[1] * a[2], a[2] * b[2])
Times(a, b) ==
  IF a[2] = 1 /\ b[2] = 1 THEN <<a[1] * b[1], 1>>
  ELSE Fraction(a[1] * b[1], a[2] * b[2])
Less(a, b)  == a[1] * b[2] < b[1] * a[2]
AtMost(a, b) == a[1] * b[2] <= b[1] * a[2]

RECURSIVE Pow2(_)
Pow2(k) == IF k = 0 THEN 1 ELSE 2 * Pow2(k - 1)

\* the whole numbers below this one are exact
Exact == Pow2(Precision)
\* a number with all its significant bits is at least this many units
Normal == Pow2(Precision - 1)
\* The host keeps the values of sprite properties whole and in
\* -(MaxCoord + 1) .. MaxCoord, where every whole number is exact.
MaxCoord == Exact - 1

\* The unit in the last place of the positive number a / d: the power of
\* two u = un / ud with 2^(Precision-1) * u <= a / d < 2^Precision * u.
RECURSIVE Ulp(_, _, _, _)
Ulp(a, d, un, ud) ==
  IF a * ud >= Exact * d * un THEN Ulp(a, d, 2 * un, ud)
  ELSE IF a * ud < Normal * d * un THEN Ulp(a, d, un, 2 * ud)
  ELSE <<un, ud>>

\* the multiple of the unit u nearest to the positive number a / d, the
\* even one of the two when it is half way
Nearest(a, d, u) ==
  LET qn == a * u[2]
      qd == d * u[1]
      m  == qn \div qd
      r  == qn % qd
      up == \/ 2 * r > qd
            \/ 2 * r = qd /\ m % 2 = 1
  IN Fraction((IF up THEN m + 1 ELSE m) * u[1], u[2])

\* the result of an arithmetic operation whose exact value is f
Round(f) ==
  IF f[2] = 1 /\ f[1] < Exact /\ -f[1] < Exact THEN f
  ELSE LET a == IF f[1] < 0 THEN -f[1] ELSE f[1]
           n == Nearest(a, f[2], Ulp(a, f[2], 1, 1))
       IN IF f[1] < 0 THEN <<-n[1], n[2]>> ELSE n

----------------------------------------------------------------------------
(* The display tree *)

Nodes == {"stage", "group", "cat", "tiles"}

\* sprite instanceof this.Sprite || sprite instanceof this.MovieClip:
\* the stage and the group are Containers, the cat is a Sprite and tiles
\* is a TilingSprite, which is a Sprite
IsSprite(n) == n \in {"cat", "tiles"}

Groups == {"position", "rotation", "size", "scale", "alpha", "tile"}

GroupProps(g) ==
  CASE g = "position" -> {"x", "y"}
    [] g = "rotation" -> {"rotation"}
    [] g = "size"     -> {"width", "height"}
    [] g = "scale"    -> {"scale.x", "scale.y"}
    [] g = "alpha"    -> {"alpha"}
    [] g = "tile"     -> {"tilePosition.x", "tilePosition.y",
                          "tileScale.x", "tileScale.y"}

Props == UNION {GroupProps(g) : g \in Groups}
GroupOf(q) ==
  CASE q \in {"x", "y"} -> "position"
    [] q = "rotation" -> "rotation"
    [] q \in {"width", "height"} -> "size"
    [] q \in {"scale.x", "scale.y"} -> "scale"
    [] q = "alpha" -> "alpha"
    [] OTHER -> "tile"

\* only a tiling sprite has tilePosition and tileScale
PropsOf(n) == IF n = "tiles" THEN Props ELSE Props \ GroupProps("tile")

\* the value a property of a node has when the node is created
InitialValue(n, q) ==
  LET base == CASE n = "stage" -> 3 [] n = "group" -> 1
                [] n = "cat" -> 0 [] n = "tiles" -> 2
      step == CASE GroupOf(q) = "position" -> 0 [] GroupOf(q) = "rotation" -> 1
                [] GroupOf(q) = "size" -> 2 [] GroupOf(q) = "scale" -> 3
                [] GroupOf(q) = "alpha" -> 4 [] GroupOf(q) = "tile" -> 5
  IN Whole(base + step)

\* The three traversals: each child of the stage, then its children,
\* recursively; the stage itself is not visited.
RECURSIVE WalkAll(_, _)
\* a visit that does not go on to the children of the node
WalkNodeOnly(ch, n) == <<n>>

Walk(ch, n) == <<n>> \o WalkAll(ch, ch[n])
WalkAll(ch, list) ==
  IF list = <<>> THEN <<>>
  ELSE Walk(ch, Head(list)) \o WalkAll(ch, Tail(list))

\* a traversal that starts at the stage itself
TraversalFromStage(ch) == Walk(ch, "stage")

Traversal(ch) == WalkAll(ch, ch["stage"])

\* the nodes of a sequence
Range(seq) == {seq[i] : i \in DOMAIN seq}

\* the function f itself, as a table of its values
Table(f) == f @@ <<>>

----------------------------------------------------------------------------
(* The host's update function, after helloWorld's update: it adds d to    *)
(* the properties of every sprite it made, and wraps them to keep them in  *)
(* -(MaxCoord + 1) .. MaxCoord.                                            *)

\* the whole number w wrapped into -(MaxCoord + 1) .. MaxCoord
Wrapped(w) == ((w + MaxCoord + 1) % (2 * (MaxCoord + 1))) - (MaxCoord + 1)

\* the value f, a whole number, moved by d and wrapped
Moved(f, d) == <<Wrapped(f[1] + d), 1>>

Update(lv, d) ==
  Table([n \in DOMAIN lv |->
     IF n = "stage" THEN lv[n]
     ELSE Table([q \in DOMAIN lv[n] |-> Moved(lv[n][q], d)])])

----------------------------------------------------------------------------
(* capturePreviousSpriteProperties *)

\* a capture that takes no notice of this.properties
CapturesEveryGroup(P, l) == DOMAIN l

\* the properties setProperties copies into the _previous slots of a sprite
\* whose defined properties are those of l
Captures(P, l) == {q \in DOMAIN l : GroupOf(q) \in P}

\* a capture that keeps a snapshot the sprite already has
SetPropertiesKeepsOld(P, l, pv) ==
  LET captured == Captures(P, l) IN
  Table([q \in DOMAIN pv \cup captured |->
     IF q \in DOMAIN pv THEN pv[q] ELSE l[q]])

\* a capture without the tests for tilePosition and tileScale, which
\* gives every sprite a snapshot of each property of an enabled group and
\* takes a missing property for zero
SetPropertiesUnguarded(P, l, pv) ==
  LET captured == {q \in Props : GroupOf(q) \in P} IN
  Table([q \in DOMAIN pv \cup captured |->
     IF q \in captured
     THEN IF q \in DOMAIN l THEN l[q] ELSE <<0, 1>>
     ELSE pv[q]])

\* the _previous slots of a sprite after setProperties(sprite)
SetProperties(P, l, pv) ==
  LET captured == Captures(P, l) IN
  Table([q \in DOMAIN pv \cup captured |->
     IF q \in captured THEN l[q] ELSE pv[q]])

RECURSIVE CaptureEach(_, _, _, _)
CaptureEach(order, P, lv, pv) ==
  IF order = <<>> THEN pv
  ELSE LET n == Head(order) IN
       CaptureEach(Tail(order), P, lv,
                   [pv EXCEPT ![n] = SetProperties(P, lv[n], pv[n])])

CapturePreviousSpriteProperties(P, ch, lv, pv) ==
  CaptureEach(Traversal(ch), P, lv, pv)

----------------------------------------------------------------------------
(* render *)

\* a blend taken from the wrong end: (previous - x) * lagOffset + x
LerpSwapped(x, previous, lagOffset) ==
  Round(Plus(Round(Times(Round(Minus(previous, x)), lagOffset)), x))

\* the interpolated value of a property
Lerp(x, previous, lagOffset) ==
  Round(Plus(Round(Times(Round(Minus(x, previous)), lagOffset)), previous))

\* a blend that handles the size of every node, a container too
BlendsAnyNode(P, n, l) == {q \in DOMAIN l : GroupOf(q) \in P}

\* the properties interpolateSprite saves in the _current slots of a sprite
Blends(P, n, l) ==
  {q \in DOMAIN l : /\ GroupOf(q) \in P
                    /\ GroupOf(q) = "size" => IsSprite(n)}

\* a render that puts nothing back
RestoresNothing(P, n, l) == {}

\* the properties restoreSpriteProperties writes back
Restores(P, n, l) ==
  {q \in DOMAIN l : /\ GroupOf(q) \in P
                    /\ GroupOf(q) = "size" => IsSprite(n)}

\* a blend without the test for a previous snapshot, which takes a
\* missing snapshot for zero
InterpolatedUnguarded(P, n, l, pv, lagOffset) ==
  LET blended == Blends(P, n, l) IN
  Table([q \in DOMAIN l |->
     IF q \in blended
     THEN Lerp(l[q], IF q \in DOMAIN pv THEN pv[q] ELSE <<0, 1>>, lagOffset)
     ELSE l[q]])

\* the sprite's properties after interpolateSprite(sprite)
Interpolated(P, n, l, pv, lagOffset) ==
  LET blended == Blends(P, n, l) \cap DOMAIN pv IN
  Table([q \in DOMAIN l |->
     IF q \in blended THEN Lerp(l[q], pv[q], lagOffset) ELSE l[q]])

\* the _current slots of a sprite after interpolateSprite(sprite)
Saved(P, n, l, cv) ==
  LET saved == Blends(P, n, l) IN
  Table([q \in DOMAIN cv \cup saved |->
     IF q \in saved THEN l[q] ELSE cv[q]])

RECURSIVE InterpolateEach(_, _, _, _, _, _)
InterpolateEach(order, P, lv, pv, cv, lagOffset) ==
  IF order = <<>> THEN [live |-> lv, curr |-> cv]
  ELSE LET n == Head(order) IN
       InterpolateEach(Tail(order), P,
         [lv EXCEPT ![n] = Interpolated(P, n, lv[n], pv[n], lagOffset)],
         pv,
         [cv EXCEPT ![n] = Saved(P, n, lv[n], cv[n])],
         lagOffset)

\* a restore that leaves the blended values in the sprite
RestoredBlended(P, n, l, cv) == l

\* the sprite's properties after restoreSpriteProperties(sprite): a slot
\* that is not defined leaves the property undefined
Restored(P, n, l, cv) ==
  LET restored == Restores(P, n, l) IN
  Table([q \in DOMAIN l \ (restored \ DOMAIN cv) |->
     IF q \in restored THEN cv[q] ELSE l[q]])

RECURSIVE RestoreEach(_, _, _, _)
RestoreEach(order, P, lv, cv) ==
  IF order = <<>> THEN lv
  ELSE LET n == Head(order) IN
       RestoreEach(Tail(order), P,
                   [lv EXCEPT ![n] = Restored(P, n, lv[n], cv[n])], cv)

\* a render that blends and restores whatever the interpolate flag says
RenderBlendsAlways(interp, P, ch, lv, pv, cv, lagOffset) ==
  LET b == InterpolateEach(Traversal(ch), P, lv, pv, cv, lagOffset)
  IN [seen |-> b.live,
      live |-> RestoreEach(Traversal(ch), P, b.live, b.curr),
      curr |-> b.curr]

\* a render that restores the sprites before it calls the renderer
RenderRestoresFirst(interp, P, ch, lv, pv, cv, lagOffset) ==
  IF interp
  THEN LET b == InterpolateEach(Traversal(ch), P, lv, pv, cv, lagOffset)
           restored == RestoreEach(Traversal(ch), P, b.live, b.curr)
       IN [seen |-> restored, live |-> restored, curr |-> b.curr]
  ELSE [seen |-> lv, live |-> lv, curr |-> cv]

\* render(lagOffset): the tree the renderer is given (seen), and the live
\* values and _current slots render leaves behind
Render(interp, P, ch, lv, pv, cv, lagOffset) ==
  IF interp
  THEN LET b == InterpolateEach(Traversal(ch), P, lv, pv, cv, lagOffset)
       IN [seen |-> b.live,
           live |-> RestoreEach(Traversal(ch), P, b.live, b.curr),
           curr |-> b.curr]
  ELSE [seen |-> lv, live |-> lv, curr |-> cv]

----------------------------------------------------------------------------
(* gameLoop *)

\* a clamp that also takes exactly 1000 ms: elapsed >= 1000
SpikeInclusive(elapsed) == elapsed >= 1000 * Ms

\* if (elapsed > 1000) elapsed = this._frameDuration
Spike(elapsed) == elapsed > 1000 * Ms

\* a loop without the clamp
ClampNever(elapsed, frameDuration) == elapsed

\* the elapsed time added to the lag
Clamp(elapsed, frameDuration) ==
  IF Spike(elapsed) THEN frameDuration ELSE elapsed

\* a loop that forgets the leftover time: this._lag = elapsed
AccumulateOverwrite(lag, elapsed) == elapsed

\* this._lag += elapsed
Accumulate(lag, elapsed) == lag + elapsed

\* a loop that stops one frame early: while (this._lag > this._frameDuration)
BehindStrict(lag, frameDuration) == lag > frameDuration

\* while (this._lag >= this._frameDuration)
Behind(lag, frameDuration) == lag >= frameDuration

\* a turn of the loop whose update comes too late for this render
TickUnmoved(s, frameDuration, P, ch, d) ==
  [lag   |-> s.lag - frameDuration,
   live  |-> s.live,
   prev  |-> CapturePreviousSpriteProperties(P, ch, s.live, s.prev),
   ticks |-> s.ticks + 1]

\* a turn of the loop that captures after the update
TickCapturesAfter(s, frameDuration, P, ch, d) ==
  [lag   |-> s.lag - frameDuration,
   live  |-> Update(s.live, d),
   prev  |-> CapturePreviousSpriteProperties(P, ch, Update(s.live, d), s.prev),
   ticks |-> s.ticks + 1]

\* One turn of the while loop of interpolate: capture, update, reduce the
\* lag.  d is what the host's update adds in this invocation, ticks counts
\* the calls of update.
Tick(s, frameDuration, P, ch, d) ==
  [lag   |-> s.lag - frameDuration,
   live  |-> Update(s.live, d),
   prev  |-> CapturePreviousSpriteProperties(P, ch, s.live, s.prev),
   ticks |-> s.ticks + 1]

RECURSIVE Catchup(_, _, _, _, _)
Catchup(s, frameDuration, P, ch, d) ==
  IF Behind(s.lag, frameDuration)
  THEN Catchup(Tick(s, frameDuration, P, ch, d), frameDuration, P, ch, d)
  ELSE s

\* a render cap that lets every callback through
RenderIsDueAlways(timestamp, renderStartTime) == timestamp.t = "number"

\* a render cap with a strict deadline: timestamp > this._renderStartTime
RenderIsDueStrict(timestamp, renderStartTime) ==
  timestamp.t = "number" /\ timestamp.v > renderStartTime

\* if (timestamp >= this._renderStartTime), for the timestamp that
\* requestAnimationFrame passes; start() passes none
RenderIsDue(timestamp, renderStartTime) ==
  timestamp.t = "number" /\ timestamp.v >= renderStartTime

\* a deadline that is the timestamp itself
DeadlineNow(timestamp, renderDuration) == timestamp.v

\* this._renderStartTime = timestamp + this._renderDuration
Deadline(timestamp, renderDuration) == timestamp.v + renderDuration.v

\* a loop that ignores the paused flag
RunningAlways(isPaused) == TRUE

\* if (!this.paused)
Running(isPaused) == ~isPaused

\* a gameLoop that does not register itself again
RequestNothing(callbacks) == callbacks

\* requestAnimationFrame(this.gameLoop.bind(this))
RequestAnimationFrame(callbacks) == callbacks + 1

\* the interpolate closure of gameLoop
Interpolate(d) ==
  LET current   == now
      elapsed   == current - _startTime
      effective == Clamp(elapsed, _frameDuration.v)
      loop      == Catchup([lag |-> Accumulate(_lag, effective), live |-> live,
                            prev |-> prev, ticks |-> 0],
                           _frameDuration.v, properties, children, d)
      offset    == Fraction(loop.lag, _frameDuration.v)
      r         == Render(interpolate, properties, children, loop.live,
                          loop.prev, curr, offset)
  IN /\ _startTime' = current
     /\ _lag' = loop.lag
     /\ _lagOffset' = offset
     /\ prev' = loop.prev
     /\ live' = r.live
     /\ curr' = r.curr
     /\ updates' = updates + loop.ticks
     /\ renders' = renders + 1
     /\ pausedTime' = 0
     /\ spikes' = IF Spike(elapsed) THEN spikes + 1 ELSE spikes
     /\ obs' = [effective |-> effective, blend |-> offset,
                before |-> loop.live, seen |-> r.seen, at |-> now,
                by |-> "interpolate"]

\* a render that takes the blend factor the last capped invocation left
StaleLagOffset == _lagOffset

\* render(lagOffset = 1): the lagOffset of a call without an argument
DefaultLagOffset == <<1, 1>>

\* an uncapped branch that samples the clock as the interpolate closure does
UncappedSamples(d) ==
  LET moved == Update(live, d)
      r     == Render(interpolate, properties, children, moved, prev, curr,
                      DefaultLagOffset)
  IN /\ live' = r.live
     /\ curr' = r.curr
     /\ updates' = updates + 1
     /\ renders' = renders + 1
     /\ obs' = [effective |-> 0, blend |-> DefaultLagOffset,
                before |-> moved, seen |-> r.seen, at |-> now,
                by |-> "uncapped"]
     /\ _startTime' = now
     /\ UNCHANGED <<_lag, _lagOffset, _renderStartTime, prev, pausedTime,
                    spikes>>

\* the branch of gameLoop for an undefined fps: update, then render()
Uncapped(d) ==
  LET moved == Update(live, d)
      r     == Render(interpolate, properties, children, moved, prev, curr,
                      DefaultLagOffset)
  IN /\ live' = r.live
     /\ curr' = r.curr
     /\ updates' = updates + 1
     /\ renders' = renders + 1
     /\ obs' = [effective |-> 0, blend |-> DefaultLagOffset,
                before |-> moved, seen |-> r.seen, at |-> now,
                by |-> "uncapped"]
     /\ UNCHANGED <<timing, prev, pausedTime, spikes>>

\* gameLoop(timestamp), without the registration of the next callback
GameLoop(timestamp, d) ==
  /\ UNCHANGED <<_fps, _frameDuration, _renderFps, _renderDuration,
                 interpolate, properties, paused, children, now, advances>>
  /\ IF ~Running(paused)
     THEN UNCHANGED <<timing, live, prev, curr, history>>
     ELSE IF _fps = Undefined
     THEN Uncapped(d)
     ELSE IF _renderFps = Undefined
     THEN Interpolate(d) /\ UNCHANGED _renderStartTime
     ELSE IF RenderIsDue(timestamp, _renderStartTime)
     THEN /\ Interpolate(d)
          /\ _renderStartTime' = Deadline(timestamp, _renderDuration)
     ELSE UNCHANGED <<timing, live, prev, curr, history>>

----------------------------------------------------------------------------
(* The state after construction *)

\* the properties option used when none is given
DefaultProperties == {"position", "rotation"}

\* a value of an option that is an object or a function
Object == [t |-> "object", v |-> 0]
\* a Boolean given as an option
Bool(b) == [t |-> "boolean", v |-> IF b THEN 1 ELSE 0]
\* a properties object, as the set of its groups that are true
Given(P) == [t |-> "object", v |-> P]

\* a rendering engine, by the members the constructor looks at
Engine(particleContainer, sprite, extras) ==
  [t |-> "object", v |-> 0, ParticleContainer |-> particleContainer,
   Sprite |-> sprite, extras |-> extras]

\* Pixi as the constructor expects it; a Pixi that has no extras member
\* (as from version 5 on); an engine that is not Pixi
Pixi              == Engine(TRUE, TRUE, TRUE)
PixiWithoutExtras == Engine(TRUE, TRUE, FALSE)
OtherEngine       == Engine(FALSE, FALSE, FALSE)

\* new Smoothie(options): the argument, and the global PIXI the default
\* of the parameter refers to
WithOptions(options) == [given |-> TRUE, options |-> options, PIXI |-> Pixi]
\* new Smoothie(): no argument, in a page whose global PIXI is pixi
WithoutOptions(pixi) == [given |-> FALSE, options |-> Undefined, PIXI |-> pixi]

\* the default value of the parameter options
DefaultOptions(pixi) ==
  [engine |-> pixi, renderer |-> Undefined, root |-> Undefined,
   update |-> Undefined, interpolate |-> Bool(TRUE), fps |-> Num(60),
   renderFps |-> Undefined, properties |-> Given(DefaultProperties)]

\* the call that gives every collaborator and these four options
Call(fpsOption, renderFpsOption, interpolateOption, propertiesOption) ==
  WithOptions([engine |-> Pixi, renderer |-> Object, root |-> Object,
               update |-> Object, interpolate |-> Bool(interpolateOption),
               fps |-> fpsOption, renderFps |-> renderFpsOption,
               properties |-> Given(propertiesOption)])

\* the argument of a call that gave every collaborator, once the
\* constructor has copied its options into the fields of the instance
Complete == WithOptions(Object)

Missing(value) == value.t = "undefined"

\* an interpolate option that switches interpolation off when it is falsy
InterpolateOptionTruthy(option) ==
  option \notin {Bool(FALSE), Num(0), Undefined}

\* if (options.interpolate === false) this.interpolate = false, else true
InterpolateOption(option) == option # Bool(FALSE)

\* what the constructor throws
Thrown(error) ==
  [outcome |-> error, fps |-> Undefined, renderFps |-> Undefined,
   interpolate |-> FALSE, properties |-> {}]

\* a constructor that does not look for the update option
ConstructUpdateUnchecked(argument) ==
  LET options == IF argument.given THEN argument.options
                 ELSE DefaultOptions(argument.PIXI)
  IN IF ~argument.given /\ Missing(argument.PIXI)
       THEN Thrown("ReferenceError")
     ELSE IF Missing(options.engine)
       THEN Thrown("Error: engine")
     ELSE IF /\ options.engine.ParticleContainer /\ options.engine.Sprite
             /\ ~options.engine.extras
       THEN Thrown("TypeError")
     ELSE IF Missing(options.renderer)
       THEN Thrown("Error: renderer")
     ELSE IF Missing(options.root)
       THEN Thrown("Error: root")
     ELSE [outcome     |-> "instance",
           fps         |-> options.fps,
           renderFps   |-> options.renderFps,
           interpolate |-> InterpolateOption(options.interpolate),
           properties  |-> IF Missing(options.properties)
                           THEN DefaultProperties
                           ELSE options.properties.v]

\* constructor(options = {engine: PIXI, ...}): the error it throws, or
\* the options the instance is made from
Construct(argument) ==
  LET options == IF argument.given THEN argument.options
                 ELSE DefaultOptions(argument.PIXI)
  IN IF ~argument.given /\ Missing(argument.PIXI)
       THEN Thrown("ReferenceError")
     ELSE IF Missing(options.engine)
       THEN Thrown("Error: engine")
     ELSE IF /\ options.engine.ParticleContainer /\ options.engine.Sprite
             /\ ~options.engine.extras
       THEN Thrown("TypeError")
     ELSE IF Missing(options.renderer)
       THEN Thrown("Error: renderer")
     ELSE IF Missing(options.root)
       THEN Thrown("Error: root")
     ELSE IF Missing(options.update)
       THEN Thrown("Error: update")
     ELSE [outcome     |-> "instance",
           fps         |-> options.fps,
           renderFps   |-> options.renderFps,
           interpolate |-> InterpolateOption(options.interpolate),
           properties  |-> IF Missing(options.properties)
                           THEN DefaultProperties
                           ELSE options.properties.v]

\* the stage the host of helloWorld built: a group that holds the cat; the
\* tiling sprite is made and not yet added
HostStage ==
  [n \in Nodes |->
     CASE n = "stage" -> <<"group">>
       [] n = "group" -> <<"cat">>
       [] OTHER -> <<>>]

\* new Smoothie(options) with the engine, renderer and update given and a
\* root whose display tree is ch
ConstructedOn(ch, fpsOption, renderFpsOption, interpolateOption, propertiesOption) ==
  /\ _fps = fpsOption
  /\ _renderFps = renderFpsOption
  /\ interpolate = (interpolateOption # FALSE)
  /\ properties = propertiesOption
  /\ paused = FALSE
  /\ _startTime = 0
  /\ _frameDuration = PerSecond(_fps)
  /\ _lag = 0
  /\ _lagOffset = <<0, 1>>
  /\ _renderStartTime = 0
  /\ _renderDuration =
        IF _renderFps # Undefined THEN PerSecond(_renderFps) ELSE Undefined
  /\ children = ch
  /\ live = [n \in Nodes |-> [q \in PropsOf(n) |-> InitialValue(n, q)]]
  /\ prev = [n \in Nodes |-> <<>>]
  /\ curr = [n \in Nodes |-> <<>>]
  /\ now = 0
  /\ due = FALSE
  /\ advances = 0
  /\ pending = 0
  /\ started = FALSE
  /\ updates = 0
  /\ renders = 0
  /\ pausedTime = 0
  /\ spikes = 0
  /\ obs = [effective |-> 0, blend |-> <<0, 1>>, before |-> <<>>,
            seen |-> <<>>, at |-> 0, by |-> "nothing"]
  /\ calls = <<>>
  /\ made = [argument |-> Complete, outcome |-> "instance"]
  /\ pc = "idle"

\* new Smoothie(options) with the engine, renderer, root and update given,
\* and the stage the host built
Constructed(fpsOption, renderFpsOption, interpolateOption, propertiesOption) ==
  ConstructedOn(HostStage, fpsOption, renderFpsOption, interpolateOption,
                propertiesOption)

----------------------------------------------------------------------------
(* The operations *)

\* The host has built its stage and is about to call new Smoothie with
\* this argument: there is no instance yet, and the fields hold nothing.
Unmade(argument) ==
  /\ made = [argument |-> argument, outcome |-> "none"]
  /\ pc = "idle"
  /\ _fps = Undefined
  /\ _renderFps = Undefined
  /\ interpolate = FALSE
  /\ properties = {}
  /\ paused = FALSE
  /\ _startTime = 0
  /\ _frameDuration = Undefined
  /\ _lag = 0
  /\ _lagOffset = <<0, 1>>
  /\ _renderStartTime = 0
  /\ _renderDuration = Undefined
  /\ children = [n \in Nodes |->
                   CASE n = "stage" -> <<"group">>
                     [] n = "group" -> <<"cat">>
                     [] OTHER -> <<>>]
  /\ live = [n \in Nodes |-> [q \in PropsOf(n) |-> InitialValue(n, q)]]
  /\ prev = [n \in Nodes |-> <<>>]
  /\ curr = [n \in Nodes |-> <<>>]
  /\ now = 0
  /\ due = FALSE
  /\ advances = 0
  /\ pending = 0
  /\ started = FALSE
  /\ updates = 0
  /\ renders = 0
  /\ pausedTime = 0
  /\ spikes = 0
  /\ obs = [effective |-> 0, blend |-> <<0, 1>>, before |-> <<>>,
            seen |-> <<>>, at |-> 0, by |-> "nothing"]
  /\ calls = <<>>

\* new Smoothie(...): the constructor throws, and there is no instance, or
\* it sets the fields of the instance
New ==
  /\ made.outcome = "none"
  /\ LET c == Construct(made.argument) IN
       /\ made' = [made EXCEPT !.outcome = c.outcome]
       /\ IF c.outcome = "instance"
          THEN /\ _fps' = c.fps
               /\ _renderFps' = c.renderFps
               /\ interpolate' = c.interpolate
               /\ properties' = c.properties
               /\ paused' = FALSE
               /\ _startTime' = now
               /\ _frameDuration' = PerSecond(c.fps)
               /\ _lag' = 0
               /\ _lagOffset' = <<0, 1>>
               /\ _renderStartTime' = 0
               /\ _renderDuration' = IF c.renderFps # Undefined
                                     THEN PerSecond(c.renderFps)
                                     ELSE Undefined
          ELSE UNCHANGED smoothie
  /\ UNCHANGED <<scene, clock, pending, started, history, calls, pc>>

\* start(): the first invocation of gameLoop, with no timestamp
Start(d) ==
  /\ ~started
  /\ started' = TRUE
  /\ pending' = RequestAnimationFrame(pending)
  /\ GameLoop(Undefined, d)
  /\ UNCHANGED <<due, calls, made, pc>>

\* the browser runs a registered callback at a display refresh
Frame(d) ==
  /\ pending > 0
  /\ due
  /\ due' = FALSE
  /\ pending' = RequestAnimationFrame(pending - 1)
  /\ GameLoop(Num(now), d)
  /\ UNCHANGED <<started, calls, made, pc>>

\* What a host that watches the loop notes of an invocation: when it ran,
\* who made it, and what it did: nothing while paused, nothing when the
\* render cap skipped it, else update and render without a frame rate
\* ("uncapped") or the interpolate closure ("processed").
Noted(caller) ==
  calls' = Append(calls,
     [at  |-> now,
      by  |-> caller,
      how |-> IF paused THEN "paused"
              ELSE IF renders' = renders THEN "skipped"
              ELSE IF _fps = Undefined THEN "uncapped"
              ELSE "processed"])

\* start(), watched
WatchedStart(d) ==
  /\ ~started
  /\ started' = TRUE
  /\ pending' = RequestAnimationFrame(pending)
  /\ GameLoop(Undefined, d)
  /\ Noted("start")
  /\ UNCHANGED <<due, made, pc>>

\* a callback at a display refresh, watched
WatchedFrame(d) ==
  /\ pending > 0
  /\ due
  /\ due' = FALSE
  /\ pending' = RequestAnimationFrame(pending - 1)
  /\ GameLoop(Num(now), d)
  /\ Noted("frame")
  /\ UNCHANGED <<started, made, pc>>

\* the clock advances by g between two display refreshes, at most limit
\* times in a run
Advance(g, limit) ==
  /\ advances < limit
  /\ advances' = advances + 1
  /\ now' = now + g
  /\ due' = TRUE
  /\ pausedTime' = IF paused THEN pausedTime + g ELSE pausedTime
  /\ UNCHANGED <<smoothie, scene, pending, started, updates, renders,
                 spikes, obs, calls, made, pc>>

TimePasses(g) == Advance(g, MaxAdvances)

\* a getter that returns the blend factor of the last render
dtOfLastRender == obs.blend

\* get dt() {return this._lagOffset;}
dt == _lagOffset

\* pause()
Pause ==
  /\ paused' = TRUE
  /\ UNCHANGED <<_fps, _frameDuration, _renderFps, _renderDuration,
                 interpolate, properties, timing, scene, clock, pending,
                 started, history, calls, made, pc>>

\* resume()
Resume ==
  /\ paused' = FALSE
  /\ UNCHANGED <<_fps, _frameDuration, _renderFps, _renderDuration,
                 interpolate, properties, timing, scene, clock, pending,
                 started, history, calls, made, pc>>

\* a setter that stores the rate and leaves the frame duration as it was
SetFpsOnly(value) ==
  /\ _fps' = value
  /\ UNCHANGED <<_frameDuration, _renderFps, _renderDuration, interpolate,
                 properties, paused, timing, scene, clock, pending, started,
                 history, calls, made, pc>>

\* smoothie.fps = value
SetFps(value) ==
  /\ _fps' = value
  /\ _frameDuration' = PerSecond(value)
  /\ UNCHANGED <<_renderFps, _renderDuration, interpolate, properties,
                 paused, timing, scene, clock, pending, started, history, calls, made, pc>>

\* smoothie.renderFps = value
SetRenderFps(value) ==
  /\ _renderFps' = value
  /\ _renderDuration' = PerSecond(value)
  /\ UNCHANGED <<_fps, _frameDuration, interpolate, properties, paused,
                 timing, scene, clock, pending, started, history, calls, made, pc>>

\* smoothie.interpolate = value
SetInterpolate(value) ==
  /\ interpolate' = value
  /\ UNCHANGED <<_fps, _frameDuration, _renderFps, _renderDuration,
                 properties, paused, timing, scene, clock, pending, started,
                 history, calls, made, pc>>

\* smoothie.properties = value
SetGroups(value) ==
  /\ properties' = value
  /\ UNCHANGED <<_fps, _frameDuration, _renderFps, _renderDuration,
                 interpolate, paused, timing, scene, clock, pending, started,
                 history, calls, made, pc>>

\* the host adds the tiling sprite to the stage: stage.addChild(tiles)
AddChild ==
  /\ "tiles" \notin Range(Traversal(children))
  /\ children' = [children EXCEPT !["stage"] = Append(@, "tiles")]
  /\ UNCHANGED <<smoothie, live, prev, curr, clock, pending, started,
                 history, calls, made, pc>>

(* An invocation followed turn by turn: gameLoop up to the while loop of   *)
(* interpolate, one turn of the loop, and the rest of interpolate.         *)

\* gameLoop, called by start() or as a callback, with a frame rate and no
\* render cap, up to the while loop: the sample of the clock, the clamp,
\* this._lag += elapsed
EnterLoop ==
  /\ pc = "idle"
  /\ \/ /\ ~started
        /\ started' = TRUE
        /\ pending' = RequestAnimationFrame(pending)
        /\ UNCHANGED due
     \/ /\ started /\ pending > 0 /\ due
        /\ due' = FALSE
        /\ pending' = RequestAnimationFrame(pending - 1)
        /\ UNCHANGED started
  /\ Running(paused)
  /\ _fps # Undefined /\ _renderFps = Undefined
  /\ LET elapsed   == now - _startTime
         effective == Clamp(elapsed, _frameDuration.v)
     IN /\ _startTime' = now
        /\ _lag' = Accumulate(_lag, effective)
        /\ spikes' = IF Spike(elapsed) THEN spikes + 1 ELSE spikes
        /\ obs' = [obs EXCEPT !.effective = effective]
  /\ pausedTime' = 0
  /\ pc' = "loop"
  /\ UNCHANGED <<_fps, _frameDuration, _renderFps, _renderDuration,
                 interpolate, properties, paused, _lagOffset,
                 _renderStartTime, scene, now, advances, updates, renders,
                 calls, made>>

\* one turn of while (this._lag >= this._frameDuration): capture, update,
\* this._lag -= this._frameDuration; at most limit calls of update are
\* followed
Turn(d, limit) ==
  /\ pc = "loop"
  /\ Behind(_lag, _frameDuration.v)
  /\ updates < limit
  /\ LET s == Tick([lag |-> _lag, live |-> live, prev |-> prev, ticks |-> 0],
                   _frameDuration.v, properties, children, d)
     IN /\ _lag' = s.lag
        /\ live' = s.live
        /\ prev' = s.prev
        /\ updates' = updates + s.ticks
  /\ UNCHANGED <<_fps, _frameDuration, _renderFps, _renderDuration,
                 interpolate, properties, paused, _startTime, _lagOffset,
                 _renderStartTime, children, curr, clock, pending, started,
                 renders, pausedTime, spikes, obs, calls, made, pc>>

\* the loop is left: this._lagOffset = this._lag / this._frameDuration,
\* this.render(this._lagOffset), and gameLoop returns
LeaveLoop ==
  /\ pc = "loop"
  /\ ~Behind(_lag, _frameDuration.v)
  /\ LET offset == Fraction(_lag, _frameDuration.v)
         r      == Render(interpolate, properties, children, live, prev, curr,
                          offset)
     IN /\ _lagOffset' = offset
        /\ live' = r.live
        /\ curr' = r.curr
        /\ obs' = [effective |-> obs.effective, blend |-> offset,
                   before |-> live, seen |-> r.seen, at |-> now,
                   by |-> "interpolate"]
  /\ renders' = renders + 1
  /\ pc' = "idle"
  /\ UNCHANGED <<_fps, _frameDuration, _renderFps, _renderDuration,
                 interpolate, properties, paused, _startTime, _lag,
                 _renderStartTime, children, prev, clock, pending, started,
                 updates, pausedTime, spikes, calls, made>>

----------------------------------------------------------------------------
(* Specifications *)

\* the properties options the host chooses among
GroupChoices == {DefaultProperties, Groups}

FpsOptions       == {Num(v) : v \in FpsValues}
RenderFpsOptions == {Num(v) : v \in RenderFpsValues} \cup {Undefined}

(* The steady loop: a frame rate chosen at construction, no render cap;    *)
(* refreshes at any distance, stalls of a second and more, pauses.  The    *)
(* host moves its sprites by one and leaves the options alone.             *)
Init ==
  \E f \in FpsOptions : Constructed(f, Undefined, TRUE, DefaultProperties)

Next ==
  \/ Start(1)
  \/ Frame(1)
  \/ \E g \in Gaps : TimePasses(g)
  \/ started /\ Pause
  \/ started /\ Resume

Spec == Init /\ [][Next]_vars

(* The tuned loop: the frame rate is assigned while the loop runs, also   *)
(* to undefined, with and without a render cap; refreshes 25 ms apart and  *)
(* stalls of more than a second, pauses; the host moves its sprites by    *)
(* five.                                                                   *)
TuningFps  == {Num(12), Num(60)}
TuningGaps == {25 * Ms, 1001 * Ms}

TuningInit ==
  \E f \in TuningFps, r \in RenderFpsOptions :
    Constructed(f, r, TRUE, DefaultProperties)

TuningNext ==
  \/ Start(5)
  \/ Frame(5)
  \/ \E g \in TuningGaps : TimePasses(g)
  \/ started /\ Pause
  \/ started /\ Resume
  \/ \E f \in TuningFps \cup {Undefined} : started /\ SetFps(f)

TuningSpec == TuningInit /\ [][TuningNext]_vars

(* The scene: the default and the full choice of interpolated properties, *)
(* a tiling sprite added while the loop runs, interpolation switched on    *)
(* and off, the frame rate switched between 60 and undefined; refreshes    *)
(* 25 ms apart; the host moves its sprites by ten.                         *)
SceneFps == {Num(60), Undefined}

SceneInit ==
  \E P \in GroupChoices : Constructed(Num(60), Undefined, TRUE, P)

SceneNext ==
  \/ Start(10)
  \/ Frame(10)
  \/ TimePasses(25 * Ms)
  \/ \E f \in SceneFps : started /\ SetFps(f)
  \/ \E b \in BOOLEAN : started /\ SetInterpolate(b)
  \/ AddChild

SceneSpec == SceneInit /\ [][SceneNext]_vars

(* The construction: the host calls new Smoothie with or without an       *)
(* argument, every collaborator given or left out, and then uses the       *)
(* instance, if there is one; refreshes 25 ms apart.                       *)
Engines == {Undefined, Pixi, PixiWithoutExtras, OtherEngine}

Arguments ==
  {WithOptions(o) : o \in [engine      : Engines,
                           renderer    : {Undefined, Object},
                           root        : {Undefined, Object},
                           update      : {Undefined, Object},
                           interpolate : {Undefined, Bool(FALSE), Num(0)},
                           fps         : {Undefined, Num(60)},
                           renderFps   : {Undefined},
                           properties  : {Undefined}]}
  \cup {WithoutOptions(pixi) : pixi \in {Undefined, Pixi}}

ConstructInit == \E argument \in Arguments : Unmade(argument)

ConstructNext ==
  \/ New
  \/ made.outcome = "instance" /\ Start(1)
  \/ made.outcome = "instance" /\ Frame(1)
  \/ TimePasses(25 * Ms)

ConstructSpec == ConstructInit /\ [][ConstructNext]_vars

(* The rates: the host makes its Smoothie with a frame rate that may be   *)
(* zero or negative, and assigns such rates to fps and renderFps, before   *)
(* it starts the loop; it pauses and resumes, and time passes.             *)
Rates == {Undefined, Num(60), Num(0), Num(-60)}

RateInit ==
  \E f \in Rates, r \in {Undefined, Num(30)} :
    Unmade(Call(f, r, TRUE, DefaultProperties))

RateNext ==
  \/ New
  \/ \E f \in Rates : made.outcome = "instance" /\ SetFps(f)
  \/ \E r \in Rates : made.outcome = "instance" /\ SetRenderFps(r)
  \/ made.outcome = "instance" /\ Pause
  \/ made.outcome = "instance" /\ Resume
  \/ TimePasses(25 * Ms)

RateSpec == RateInit /\ [][RateNext]_vars

(* The assignments: while the loop runs the host assigns fps and          *)
(* renderFps, the latter also to undefined; refreshes 25 ms apart; the     *)
(* host moves its sprites by five.                                         *)
AssignedFps       == {Num(12), Num(60)}
AssignedRenderFps == {Undefined, Num(10), Num(30)}

AssignInit ==
  \E f \in AssignedFps, r \in {Undefined, Num(10)} :
    Constructed(f, r, TRUE, DefaultProperties)

AssignNext ==
  \/ Start(5)
  \/ Frame(5)
  \/ TimePasses(25 * Ms)
  \/ \E f \in AssignedFps : started /\ SetFps(f)
  \/ \E r \in AssignedRenderFps : started /\ SetRenderFps(r)

AssignSpec == AssignInit /\ [][AssignNext]_vars

(* The growing scene: a fixed frame rate of 60 and a fixed choice of      *)
(* interpolated properties; the host adds the tiling sprite while the      *)
(* loop runs; refreshes 10 and 25 ms apart, so that an invocation runs no  *)
(* update, one, or several; the host moves its sprites by one.             *)
GrowGaps == {10 * Ms, 25 * Ms}

GrowInit ==
  \E P \in GroupChoices : Constructed(Num(60), Undefined, TRUE, P)

GrowNext ==
  \/ Start(1)
  \/ Frame(1)
  \/ \E g \in GrowGaps : TimePasses(g)
  \/ AddChild

GrowSpec == GrowInit /\ [][GrowNext]_vars

(* The capped render: a frame rate of 60 or none, a render cap of 33 ms   *)
(* or of 30 renders a second, refreshes 16 ms or a sixtieth of a second    *)
(* apart; the host starts the loop at once and watches its invocations.    *)
Refreshes == {16 * Ms, (1000 * Ms) \div 60}
CapFps    == {Num(60), Undefined}
CapRates  == {Ratio(1000, 33), Num(30)}

CapInit ==
  \E f \in CapFps, r \in CapRates :
    Constructed(f, r, TRUE, DefaultProperties)

CapNext ==
  \/ advances = 0 /\ WatchedStart(1)
  \/ WatchedFrame(1)
  \/ \E g \in Refreshes : Advance(g, MaxRefreshes)

CapSpec == CapInit /\ [][CapNext]_vars

(* The slow loop: frame rates of 60, of one and of one update in two      *)
(* seconds, refreshes 25 ms apart and stalls of 1001 ms; the host moves    *)
(* its sprites by one.                                                     *)
SlowFps  == {Num(60), Num(1), Ratio(1, 2)}
SlowGaps == {25 * Ms, 1001 * Ms}

SlowInit ==
  \E f \in SlowFps : Constructed(f, Undefined, TRUE, DefaultProperties)

SlowNext ==
  \/ Start(1)
  \/ Frame(1)
  \/ \E g \in SlowGaps : TimePasses(g)

SlowSpec == SlowInit /\ [][SlowNext]_vars

(* The display trees: the host has put some or all of the group, the cat  *)
(* and the tiling sprite below the stage, each as a child of the stage or   *)
(* of another of them, in any order, before it made the instance; the      *)
(* tree then stays as it is.  Refreshes 25 ms apart; the host moves its     *)
(* sprites by one.                                                         *)
Others == Nodes \ {"stage"}

\* where each display object is added: to the stage, to another object, or
\* nowhere
Parents == [Others -> Nodes \cup {"nowhere"}]

\* n is below the stage, at most k levels down
RECURSIVE InScene(_, _, _)
InScene(p, n, k) ==
  /\ k > 0
  /\ \/ p[n] = "stage"
     \/ p[n] \in Others /\ InScene(p, p[n], k - 1)

\* the order in which the host calls addChild
Orders == {o \in [1 .. Cardinality(Others) -> Others] : Range(o) = Others}

\* the children arrays after the host has added each object to its parent
Tree(p, o) ==
  [n \in Nodes |-> SelectSeq(o, LAMBDA c : p[c] = n)]

Trees ==
  {Tree(p, o) : p \in {q \in Parents : \A n \in Others :
                          q[n] = "nowhere" \/ InScene(q, n, Cardinality(Others))},
                o \in Orders}

TreeInit ==
  \E ch \in Trees : ConstructedOn(ch, Num(60), Undefined, TRUE, DefaultProperties)

TreeNext ==
  \/ Start(1)
  \/ Frame(1)
  \/ TimePasses(25 * Ms)

TreeSpec == TreeInit /\ [][TreeNext]_vars

(* The changing groups: while the loop runs at 60 updates a second the    *)
(* host assigns properties, with the position group in one choice and      *)
(* size, scale, alpha and tile in the other, and switches interpolation    *)
(* on and off; refreshes 10 and 25 ms apart, so that an invocation runs no *)
(* update, one, or several; the host moves its sprites by one.             *)
ModeGroups == {DefaultProperties, Groups \ {"position"}}
ModeGaps   == {10 * Ms, 25 * Ms}

ModeInit ==
  \E P \in ModeGroups : Constructed(Num(60), Undefined, TRUE, P)

ModeNext ==
  \/ Start(1)
  \/ Frame(1)
  \/ \E g \in ModeGaps : TimePasses(g)
  \/ \E P \in ModeGroups : started /\ SetGroups(P)
  \/ \E b \in BOOLEAN : started /\ SetInterpolate(b)

ModeSpec == ModeInit /\ [][ModeNext]_vars

(* The loop turn by turn: an instance made with a frame rate of 60, of 12  *)
(* or of -60, which the constructor accepts as it accepts any number;      *)
(* refreshes 25 ms apart, while no invocation is running; the host moves   *)
(* its sprites by one.  The code of an invocation, once entered, runs on:  *)
(* a turn that can be taken is taken, and the loop is left when it can be. *)
LoopFps == {Num(60), Num(12), Num(-60)}

LoopInit ==
  \E f \in LoopFps : Constructed(f, Undefined, TRUE, DefaultProperties)

LoopNext ==
  \/ EnterLoop
  \/ Turn(1, MaxTurns)
  \/ LeaveLoop
  \/ pc = "idle" /\ TimePasses(25 * Ms)

LoopSpec == LoopInit /\ [][LoopNext]_vars

\* the step of LeaveLoop, told by its test and by what it does to pc
Returns ==
  /\ pc = "loop"
  /\ ~Behind(_lag, _frameDuration.v)
  /\ pc' = "idle"

LoopFairSpec ==
  LoopSpec /\ WF_vars(Turn(1, MaxTurns)) /\ WF_pc(Returns)

----------------------------------------------------------------------------
(* Steps, as the properties below read them *)

\* the step is an invocation of gameLoop: a callback run at a display
\* refresh, or the call that start() makes
Invoked == (due /\ ~due') \/ (~started /\ started')

\* the invocation called the renderer
Rendered == Invoked /\ renders' = renders + 1

\* the invocation ran the interpolate closure (a processed invocation)
Processed == Rendered /\ _fps # Undefined

\* the calls of update the step made
Ticks == updates' - updates

Abs(n) == IF n < 0 THEN -n ELSE n

----------------------------------------------------------------------------
(* C1 .. C10 *)

\* C1: a processed invocation with frame duration td, prior lag L and
\* effective elapsed time e calls update exactly floor((L + e) / td) times
\* and leaves the lag (L + e) - ticks * td.
C1_TicksAreQuotient ==
  [][Processed =>
       LET td == _frameDuration.v
           total == _lag + obs'.effective
       IN /\ Ticks = total \div td
          /\ _lag' = total - Ticks * td]_vars

\* a first rendering invocation that ran several updates and left some lag
C1_Witness == renders = 1 /\ updates >= 2 /\ _lag > 0

\* C2: after every processed invocation 0 <= lag < frame duration, and the
\* blend factor given to render is lag / frameDuration, in [0, 1).
C2_LagBelowFrameDuration ==
  [][Processed =>
       /\ 0 <= _lag' /\ _lag' < _frameDuration'.v
       /\ obs'.blend = Fraction(_lag', _frameDuration'.v)
       /\ _lagOffset' = obs'.blend
       /\ AtMost(<<0, 1>>, obs'.blend) /\ Less(obs'.blend, <<1, 1>>)]_vars

\* a processed invocation under a render cap, after a spike, that left a
\* lag
C2_Witness ==
  /\ _fps # Undefined /\ _renderFps # Undefined
  /\ renders >= 2 /\ ~paused /\ ~due
  /\ _lag > 0 /\ _lagOffset = Fraction(_lag, _frameDuration.v)
  /\ spikes > 0

\* C3 as stated: whatever the elapsed-time samples, the updates run so far
\* differ from rate * (time since construction) by less than one update.
C3_AnySamples ==
  Abs(updates * _frameDuration.v - _startTime) < _frameDuration.v

\* C3, amended: as long as no sample exceeded 1000 ms, the updates run so
\* far differ from rate * (time since construction) by less than one update.
C3_NoSpikeSamples ==
  spikes = 0 =>
    Abs(updates * _frameDuration.v - _startTime) < _frameDuration.v

\* several invocations without a spike that ran updates
C3_Witness == spikes = 0 /\ renders >= 3 /\ updates >= 2 /\ _lag > 0

\* the nodes the traversals visit
Visited == Range(Traversal(children))

\* C4: the live values after render() returns are the live values
\* immediately before render() was called, for every node and property.
C4_RenderRoundTrip == renders > 0 => live = obs.before

\* a render that showed the renderer a blended value and put the exact
\* one back, and one that had no previous snapshot of a visited sprite
C4_Witness ==
  /\ renders > 0 /\ interpolate
  /\ \E n \in Visited : \E q \in DOMAIN prev[n] :
       /\ GroupOf(q) \in properties
       /\ obs.seen[n][q] # obs.before[n][q]
       /\ live[n][q] = obs.before[n][q]
  /\ \E n \in Visited : prev[n] = <<>> /\ curr[n] # <<>>

\* previous + (live - previous) * lagOffset, in floating-point arithmetic
Blend(previous, exact, lagOffset) ==
  Round(Plus(previous, Round(Times(Round(Minus(exact, previous)), lagOffset))))

\* C5 as stated: with interpolation enabled, the renderer sees
\* previous + (live - previous) * lagOffset for every enabled property of
\* a node that has a previous snapshot, and the exact value is back after
\* the render.
C5_EveryEnabledProperty ==
  [][(Rendered /\ interpolate) =>
       \A n \in Visited : \A q \in DOMAIN prev'[n] \cap DOMAIN live[n] :
         GroupOf(q) \in properties =>
           /\ obs'.seen[n][q] =
                Blend(prev'[n][q], obs'.before[n][q], obs'.blend)
           /\ live'[n][q] = obs'.before[n][q]]_vars

\* C5, amended: the same, except for the width and height of a node that
\* is neither a Sprite nor a MovieClip, which the renderer sees exact.
C5_ExceptContainerSize ==
  [][(Rendered /\ interpolate) =>
       \A n \in Visited : \A q \in DOMAIN prev'[n] \cap DOMAIN live[n] :
         GroupOf(q) \in properties =>
           /\ obs'.seen[n][q] =
                IF GroupOf(q) = "size" /\ ~IsSprite(n)
                THEN obs'.before[n][q]
                ELSE Blend(prev'[n][q], obs'.before[n][q], obs'.blend)
           /\ live'[n][q] = obs'.before[n][q]]_vars

\* previous (0, 0), post-tick (10, 10), lagOffset 0.5: the renderer saw
\* (5, 5) and the cat is at (10, 10) after the render
C5_Witness ==
  /\ renders > 0 /\ interpolate /\ "position" \in properties
  /\ "x" \in DOMAIN prev["cat"]
  /\ obs.blend = <<1, 2>>
  /\ \A q \in {"x", "y"} :
       /\ prev["cat"][q] = Whole(0)
       /\ obs.before["cat"][q] = Whole(10)
       /\ obs.seen["cat"][q] = Whole(5)
       /\ live["cat"][q] = Whole(10)

\* C6: in a processed invocation the measured elapsed time is replaced by
\* the frame duration exactly when it is more than 1000 ms; when it is
\* replaced and the prior lag is in [0, frame duration), one update runs
\* and the lag is left as it was.
C6_ClampAboveOneSecond ==
  [][Processed =>
       LET measured == now - _startTime
           td == _frameDuration.v
       IN /\ measured > 1000 * Ms => obs'.effective = td
          /\ measured <= 1000 * Ms => obs'.effective = measured
          /\ (measured > 1000 * Ms /\ 0 <= _lag /\ _lag < td) =>
               (Ticks = 1 /\ _lag' = _lag)]_vars

\* the second rendering invocation came more than 1000 ms after the
\* first, which had left some lag: it ran one update and kept the lag
C6_Witness ==
  /\ renders = 2 /\ spikes = 1 /\ updates = 2
  /\ _lag > 0 /\ obs.effective = _frameDuration.v

\* C7: with the lag in [0, frame duration) before it, a processed
\* invocation runs at most floor(1000 / frameDuration) + 1 updates.
C7_BoundedCatchup ==
  [][(Processed /\ 0 <= _lag /\ _lag < _frameDuration.v) =>
       Ticks <= ((1000 * Ms) \div _frameDuration.v) + 1]_vars

\* the first rendering invocation, a second after construction at 30 fps,
\* ran 30 updates
C7_Witness == renders = 1 /\ updates = 30 /\ _fps = Num(30)

\* C8: a paused invocation runs no update and no render and leaves the
\* lag, the last-sample time, the blend factor, the render deadline and
\* every live and shadow value as they were; pause() and resume() change
\* nothing but the paused flag.
C8_PausedChangesNothing ==
  [][/\ (Invoked /\ paused) =>
          /\ UNCHANGED <<_lag, _startTime, _lagOffset, _renderStartTime>>
          /\ UNCHANGED <<live, prev, curr, children>>
          /\ UNCHANGED <<updates, renders, obs>>
     /\ (paused' # paused) =>
          UNCHANGED <<_fps, _frameDuration, _renderFps, _renderDuration,
                      interpolate, properties, timing, scene, clock,
                      pending, started, history, calls>>]_vars

\* a callback ran while paused, some time after the last sample
C8_Witness ==
  /\ started /\ paused /\ ~due /\ pausedTime > 0
  /\ _fps # Undefined /\ _renderFps # Undefined /\ now > _startTime

\* C9: the first processed invocation after a pause runs no more updates
\* than it would have run had no time passed during the pause.
C9_PausedTimeMakesNoTicks ==
  [][(Processed /\ pausedTime > 0) =>
       LET td == _frameDuration.v
           unpaused == (now - _startTime) - pausedTime
       IN Ticks <= (_lag + Clamp(unpaused, td)) \div td]_vars

\* C10 as stated: with fps undefined, every unpaused invocation calls
\* update once and then the renderer once, with blend factor 1; the
\* renderer sees the exact values update left, which are the live values
\* after the render.
C10_UncappedRendersExact ==
  [][(Invoked /\ ~paused /\ _fps = Undefined) =>
       /\ Ticks = 1
       /\ renders' = renders + 1
       /\ obs'.blend = <<1, 1>>
       /\ obs'.seen = obs'.before
       /\ live' = obs'.before]_vars

\* C10, amended: with fps undefined, every unpaused invocation calls update
\* once and then the renderer once, with blend factor 1; the live values
\* after the render are the values update left; the renderer sees the
\* value update left of every property, except that of an interpolated
\* property with a previous snapshot it sees (live - previous) * 1 +
\* previous as floating-point arithmetic gives it.
C10_UncappedRendersBlendOfOne ==
  [][(Invoked /\ ~paused /\ _fps = Undefined) =>
       /\ Ticks = 1
       /\ renders' = renders + 1
       /\ obs'.blend = <<1, 1>>
       /\ live' = obs'.before
       /\ \A n \in Visited : \A q \in DOMAIN live[n] :
            obs'.seen[n][q] =
              IF /\ interpolate
                 /\ q \in DOMAIN prev[n]
                 /\ GroupOf(q) \in properties
                 /\ GroupOf(q) = "size" => IsSprite(n)
              THEN Blend(prev[n][q], obs'.before[n][q], <<1, 1>>)
              ELSE obs'.before[n][q]]_vars

\* an uncapped invocation under a render cap, before its deadline, with
\* interpolation on and previous snapshots that differ from the values
\* update left: the renderer saw the cat where update left it, and another
\* property a rounding error away from where update left it
C10_Witness ==
  /\ _fps = Undefined /\ _renderFps # Undefined /\ interpolate
  /\ started /\ ~due /\ ~paused
  /\ obs.blend = <<1, 1>> /\ renders >= 2
  /\ now < _renderStartTime
  /\ "x" \in DOMAIN prev["cat"] /\ prev["cat"]["x"] # live["cat"]["x"]
  /\ obs.seen["cat"]["x"] = live["cat"]["x"]
  /\ \E n \in Visited : \E q \in DOMAIN prev[n] :
        obs.seen[n][q] # live[n][q]

----------------------------------------------------------------------------
(* C11 .. C20 *)

\* the last invocation of gameLoop
Last == calls[Len(calls)]

\* C11: with a render cap and a capped fps, an unpaused callback whose
\* timestamp is before the render deadline runs no update and no render
\* and leaves the lag, the last-sample time, the blend factor and the
\* render deadline as they were.
C11_SkippedChangesNothing ==
  [][(/\ due /\ ~due'
      /\ ~paused
      /\ _fps # Undefined
      /\ _renderFps # Undefined
      /\ now < _renderStartTime) =>
       /\ Ticks = 0
       /\ renders' = renders
       /\ UNCHANGED <<_lag, _startTime, _lagOffset, _renderStartTime>>]_vars

\* a callback was skipped by the render cap, after an invocation that had
\* left some lag, with time passed since that sample
C11_Witness ==
  /\ calls # <<>> /\ Last.how = "skipped" /\ Last.by = "frame"
  /\ renders >= 1 /\ _lag > 0 /\ ~due
  /\ _startTime < now /\ now < _renderStartTime

Steady(g) ==
  /\ calls # <<>>
  /\ \A i \in DOMAIN calls : calls[i].at = (i - 1) * g
  /\ ~due

\* the i-th watched invocation called the renderer
RenderedAt(i) == calls[i].how \in {"processed", "uncapped"}

\* C13 as stated: with a render cap of 33 ms and an fps of 60, of two
\* consecutive invocations 16 ms apart exactly one is processed.
C13_EverySecondProcessed ==
  (_fps = Num(60) /\ _renderFps = Ratio(1000, 33) /\ Steady(16 * Ms)) =>
    \A i \in 1 .. Len(calls) - 1 :
      (calls[i].how = "processed") # (calls[i + 1].how = "processed")

\* C13, amended: with a render cap of 33 ms and an fps of 60, of the
\* callbacks 16 ms apart the first is processed and then every third; the
\* others, and the call start() makes, are skipped: no update, no render.
C13_EveryThirdProcessed ==
  (_fps = Num(60) /\ _renderFps = Ratio(1000, 33) /\ Steady(16 * Ms)) =>
    /\ \A i \in DOMAIN calls :
         calls[i].how = IF i >= 2 /\ (i - 2) % 3 = 0 THEN "processed"
                        ELSE "skipped"
    /\ renders = (Len(calls) + 1) \div 3

\* five callbacks 16 ms apart under a cap of 33 ms: two were processed
C13_Witness ==
  /\ _fps = Num(60) /\ _renderFps = Ratio(1000, 33) /\ Steady(16 * Ms)
  /\ Len(calls) = 6 /\ renders = 2 /\ updates > 0
  /\ _renderDuration = Num(33 * Ms)

SkippedByCap ==
  /\ _fps # Undefined
  /\ _renderFps # Undefined
  /\ (~started /\ started') \/ now < _renderStartTime

\* the live values after k calls of an update that moves by d
RECURSIVE AfterUpdates(_, _, _)
AfterUpdates(lv, d, k) ==
  IF k = 0 THEN lv ELSE AfterUpdates(Update(lv, d), d, k - 1)

\* C15: an invocation that is neither paused nor skipped by the render cap
\* calls the renderer once, after all the updates of the invocation: the
\* render starts from the live values all its updates left.  A paused or a
\* skipped invocation does not call the renderer.  (The host of TuningSpec
\* moves its sprites by five.)
C15_OneRenderAfterTicks ==
  [][Invoked =>
       IF paused \/ SkippedByCap
       THEN renders' = renders
       ELSE /\ renders' = renders + 1
            /\ obs'.at = now
            /\ obs'.before = AfterUpdates(live, 5, Ticks)
            /\ live' = obs'.before]_vars

\* the first callback the render cap let through came 50 ms after
\* construction, ran three updates at 60 fps and then rendered once
C15_Witness ==
  /\ _fps = Num(60) /\ _renderFps # Undefined /\ ~paused /\ ~due
  /\ now = 50 * Ms /\ obs.at = now /\ obs.by = "interpolate"
  /\ renders = 1 /\ updates = 3 /\ _lag = 0
  /\ live = obs.before
  /\ live["cat"]["x"] = Whole(15)

\* C16: with interpolation disabled, render() blends nothing and restores
\* nothing: the renderer sees exactly the live values the updates of the
\* invocation left, and the render writes no live value and no _current
\* slot.
C16_DisabledRendersExact ==
  [][(Rendered /\ ~interpolate) =>
       /\ obs'.seen = obs'.before
       /\ live' = obs'.before
       /\ curr' = curr]_vars

\* a render with interpolation disabled, half way between two updates,
\* of a sprite whose previous snapshot differs from its live value and
\* whose _current slot is older than its live value: the renderer saw the
\* live value
C16_Witness ==
  /\ ~interpolate /\ ~due /\ _fps # Undefined
  /\ obs.at = now /\ obs.by = "interpolate"
  /\ obs.blend = <<1, 2>>
  /\ "x" \in DOMAIN prev["cat"] /\ prev["cat"]["x"] # live["cat"]["x"]
  /\ "x" \in DOMAIN curr["cat"] /\ curr["cat"]["x"] # live["cat"]["x"]
  /\ obs.seen = live

\* C17: with interpolation disabled and a capped tick rate the renderer is
\* called as often as the host's update: every invocation of the loop
\* makes as many renderer calls as update calls, so that the two counts
\* agree over any run.
C17_RendersEqualUpdates ==
  [][(Invoked /\ ~interpolate /\ _fps # Undefined) =>
       renders' - renders = Ticks]_vars

\* C18: a node that has no previous snapshot for an enabled property when
\* it is rendered is shown with its exact live value for that property:
\* the blend leaves the live value as it is, and all it does is to record
\* the value in the _current slot (which it does for every property it
\* handles; the width and height of a container get no slot).
C18_NoSnapshotRendersExact ==
  [][(Rendered /\ interpolate) =>
       \A n \in Visited : \A q \in DOMAIN obs'.before[n] :
         (GroupOf(q) \in properties /\ q \notin DOMAIN prev'[n]) =>
           /\ obs'.seen[n][q] = obs'.before[n][q]
           /\ live'[n][q] = obs'.before[n][q]
           /\ IF q \in Blends(properties, n, obs'.before[n])
              THEN /\ q \in DOMAIN curr'[n]
                   /\ curr'[n][q] = obs'.before[n][q]
              ELSE /\ (q \in DOMAIN curr'[n]) = (q \in DOMAIN curr[n])
                   /\ q \in DOMAIN curr[n] => curr'[n][q] = curr[n][q]]_vars

\* the tiling sprite was added while the frame rate was undefined and has
\* never been captured; the last render, with interpolation on and after
\* some update, showed its tile position as it is and recorded it, while
\* the cat has a snapshot
C18_Witness ==
  /\ interpolate /\ ~due /\ obs.at = now /\ updates >= 2
  /\ "tile" \in properties
  /\ "tiles" \in Visited
  /\ prev["tiles"] = <<>>
  /\ "x" \in DOMAIN prev["cat"]
  /\ obs.seen["tiles"] = live["tiles"]
  /\ "tilePosition.x" \in DOMAIN curr["tiles"]
  /\ curr["tiles"]["tilePosition.x"] = live["tiles"]["tilePosition.x"]

\* the properties of the size and the scale groups
SizeProps  == GroupProps("size")
ScaleProps == GroupProps("scale")

\* C19 as stated: the renderer sees the exact live width, height, scale.x
\* and scale.y of a node that is neither a Sprite nor a MovieClip, with
\* size or scale enabled.
C19_ContainerSizeAndScaleExact ==
  [][(Rendered /\ interpolate) =>
       \A n \in Visited : \A q \in DOMAIN obs'.before[n] :
         (~IsSprite(n) /\ q \in SizeProps \cup ScaleProps
                       /\ GroupOf(q) \in properties) =>
           obs'.seen[n][q] = obs'.before[n][q]]_vars

\* C19, amended: the renderer sees the exact live width and height of a
\* node that is neither a Sprite nor a MovieClip, with size enabled; its
\* scale.x and scale.y are blended like those of a sprite.
C19_ContainerSizeExact ==
  [][(Rendered /\ interpolate) =>
       \A n \in Visited : \A q \in DOMAIN obs'.before[n] :
         (~IsSprite(n) /\ GroupOf(q) \in properties) =>
           /\ q \in SizeProps => obs'.seen[n][q] = obs'.before[n][q]
           /\ (q \in ScaleProps /\ q \in DOMAIN prev'[n]) =>
                obs'.seen[n][q] =
                  Blend(prev'[n][q], obs'.before[n][q], obs'.blend)]_vars

\* a render half way between two updates, with size and scale enabled:
\* the group, a container, has snapshots of its width and its scale.x that
\* differ from the live values; the renderer saw the live width and a
\* blended scale.x, and the width of the cat, a sprite, blended
C19_Witness ==
  /\ interpolate /\ ~due /\ obs.at = now /\ obs.blend = <<1, 2>>
  /\ {"size", "scale"} \subseteq properties
  /\ "group" \in Visited /\ ~IsSprite("group")
  /\ {"width", "scale.x"} \subseteq DOMAIN prev["group"]
  /\ prev["group"]["width"] # live["group"]["width"]
  /\ prev["group"]["scale.x"] # live["group"]["scale.x"]
  /\ obs.seen["group"]["width"] = live["group"]["width"]
  /\ obs.seen["group"]["scale.x"] # live["group"]["scale.x"]
  /\ obs.seen["cat"]["width"] # live["cat"]["width"]

\* the argument has the renderer, the root and the update options
Mandatory(argument) ==
  /\ argument.given
  /\ ~Missing(argument.options.renderer)
  /\ ~Missing(argument.options.root)
  /\ ~Missing(argument.options.update)

\* the argument has an engine option the constructor can take its aliases
\* from
Usable(argument) ==
  /\ argument.given
  /\ ~Missing(argument.options.engine)
  /\ (argument.options.engine.ParticleContainer
        /\ argument.options.engine.Sprite)
       => argument.options.engine.extras

\* C20 as stated: new Smoothie throws, and nothing can be started, when
\* the renderer, the root or the update option is missing or no argument
\* is given; it makes an instance when the three are there.
C20_FailsIffCollaboratorMissing ==
  made.outcome # "none" =>
    /\ (made.outcome = "instance") = Mandatory(made.argument)
    /\ started => made.outcome = "instance"

\* C20, amended: new Smoothie throws, and nothing can be started, when the
\* renderer, the root or the update option is missing or no argument is
\* given; it makes an instance when the three are there and the engine
\* option is there too and, if it has ParticleContainer and Sprite, has
\* extras.
C20_FailsIffCollaboratorOrEngineMissing ==
  made.outcome # "none" =>
    /\ ~Mandatory(made.argument) => made.outcome # "instance"
    /\ (made.outcome = "instance") =
         (Mandatory(made.argument) /\ Usable(made.argument))
    /\ started => made.outcome = "instance"

\* new Smoothie({engine: PIXI, renderer, root}) threw the error that asks
\* for the update option, and nothing was started
C20_Witness ==
  /\ made.argument.given
  /\ made.argument.options.engine = Pixi
  /\ ~Missing(made.argument.options.renderer)
  /\ ~Missing(made.argument.options.root)
  /\ Missing(made.argument.options.update)
  /\ made.outcome = "Error: update"
  /\ ~started /\ pending = 0 /\ advances > 0

\* C21: a frame rate of zero or less is refused when the instance is made
\* and when it is assigned to fps: an instance never has a frame rate that
\* is a number and not positive, nor a frame duration that is not a
\* positive number.
C21_RateIsPositive ==
  (made.outcome = "instance" /\ _fps.t = "number") =>
    /\ _fps.v > 0
    /\ _frameDuration.t = "number"
    /\ _frameDuration.v > 0

\* C22: an instance made from options without fps runs its logic at 60
\* updates a second: its frame rate is 60 and its frame duration 1000 / 60.
C22_FpsDefaultsToSixty ==
  (made.outcome = "instance" /\ Missing(made.argument.options.fps)) =>
    /\ _fps = Num(60)
    /\ _frameDuration.t = "number"
    /\ _frameDuration.v * 60 = 1000 * Ms

\* the properties of the position and the rotation groups
DefaultProps == GroupProps("position") \cup GroupProps("rotation")

\* C23: in an instance made without a properties option only position and
\* rotation are enabled: no other property is ever captured, saved or
\* shown blended; and interpolation is on unless the interpolate option
\* is exactly false.
C23_DefaultGroupsAndInterpolation ==
  made.outcome = "instance" =>
    /\ interpolate = (made.argument.options.interpolate # Bool(FALSE))
    /\ Missing(made.argument.options.properties) =>
         /\ properties = {"position", "rotation"}
         /\ \A n \in Nodes :
              DOMAIN prev[n] \cup DOMAIN curr[n] \subseteq DefaultProps
         /\ renders > 0 =>
              \A n \in Visited : \A q \in DOMAIN live[n] \ DefaultProps :
                obs.seen[n][q] = obs.before[n][q]

\* an instance made with interpolate: 0 and no properties option has
\* interpolation on; after an update its cat has snapshots of x, y and
\* rotation only, and the renderer saw a blended x
C23_Witness ==
  /\ made.outcome = "instance"
  /\ made.argument.options.interpolate = Num(0)
  /\ Missing(made.argument.options.properties)
  /\ interpolate /\ updates >= 1 /\ renders >= 2
  /\ DOMAIN prev["cat"] = DefaultProps
  /\ DOMAIN curr["cat"] = DefaultProps
  /\ obs.seen["cat"]["x"] # live["cat"]["x"]
  /\ obs.seen["cat"]["width"] = live["cat"]["width"]

\* C24 as stated: dt is the blend factor the most recent render used:
\* lag / frameDuration after a capped invocation, 1 after an uncapped one.
C24_DtIsLastBlend == renders > 0 => dt = obs.blend

\* C24, amended: dt is the blend factor of the most recent render of a
\* capped invocation, lag / frameDuration; a render of an uncapped
\* invocation uses 1 and leaves dt as it was, and so does everything else
\* the loop and the host do.
C24_DtIsLastCappedBlend ==
  [][/\ Processed =>
          /\ dt' = obs'.blend
          /\ dt' = Fraction(_lag', _frameDuration.v)
     /\ (Rendered /\ _fps = Undefined) => obs'.blend = <<1, 1>>
     /\ ~Processed => dt' = dt]_vars

\* an uncapped invocation has just rendered with the factor 1 and dt is
\* still the factor of an earlier capped render, neither 0 nor 1
C24_Witness ==
  /\ _fps = Undefined /\ ~due /\ obs.at = now /\ obs.by = "uncapped"
  /\ obs.blend = <<1, 1>> /\ renders >= 2
  /\ dt # <<1, 1>> /\ dt # <<0, 1>>

\* the frame duration is 1000 / fps and the render interval 1000 / renderFps
DurationsDerived ==
  /\ _fps.t = "number" =>
       /\ _frameDuration.t = "number"
       /\ _frameDuration.v * _fps.v = 1000 * Ms
  /\ _renderFps.t = "number" =>
       /\ _renderDuration.t = "number"
       /\ _renderDuration.v * _renderFps.v = 1000 * Ms

\* C25: in every state with a numeric frame rate the frame duration is
\* 1000 / fps, and with a numeric render cap the render interval is
\* 1000 / renderFps; an assignment to fps or renderFps changes neither the
\* lag, nor the time of the last sample, nor the render deadline.
C25_DurationsFollowRates ==
  /\ []DurationsDerived
  /\ [][(_fps' # _fps \/ _renderFps' # _renderFps) =>
          UNCHANGED <<_lag, _startTime, _renderStartTime, _lagOffset>>]_vars

\* fps was assigned 12 and renderFps 30 while the loop held a lag of a
\* third of a 60 fps frame and a deadline 100 ms after its last render
C25_Witness ==
  /\ started /\ DurationsDerived
  /\ _fps = Num(12) /\ _renderFps = Num(30)
  /\ _lag = 25 /\ _startTime = 25 * Ms
  /\ _renderStartTime = 125 * Ms /\ now < _renderStartTime

\* C26: every invocation of gameLoop registers exactly one callback for
\* the next display refresh, whether it is processed, paused or skipped by
\* the render cap: once start() has been called there is exactly one
\* callback pending in every state, and none before.
C26_OneCallbackPending ==
  /\ [](pending = IF started THEN 1 ELSE 0)
  /\ [][Invoked => pending' = (IF started THEN pending - 1 ELSE pending) + 1]_vars

\* a callback has run while the loop was paused, after a render, and one
\* callback is pending
C26_Witness ==
  /\ started /\ paused /\ ~due /\ pausedTime > 0
  /\ _fps # Undefined /\ renders >= 1 /\ advances >= 2
  /\ pending = 1

\* the live values the host built its stage with
Built == [n \in Nodes |-> [q \in PropsOf(n) |-> InitialValue(n, q)]]

\* C27: whenever the host's update is called, the live values it finds are
\* exact: in every state they are the values the host built, moved by the
\* updates that ran so far, and never a value the blend wrote for a
\* render; for every choice of enabled groups.  (The host of SceneSpec
\* moves its sprites by ten.)
C27_UpdateFindsExactValues == live = AfterUpdates(Built, 10, updates)

\* with every group enabled, a render has shown blended values of the
\* cat, of the group and of the tiling sprite, and two updates have run
C27_Witness ==
  /\ properties = Groups /\ interpolate /\ updates >= 2 /\ renders >= 2
  /\ "tiles" \in Visited
  /\ obs.seen["cat"]["alpha"] # live["cat"]["alpha"]
  /\ obs.seen["group"]["scale.x"] # live["group"]["scale.x"]
  /\ obs.seen["tiles"]["tilePosition.x"] # live["tiles"]["tilePosition.x"]

\* C28: a processed capped invocation does its steps in this order: for
\* each update the capture, then the update, then the reduction of the
\* lag; after the last update the blend, then the renderer, then the
\* restore.  So the snapshots are the values before the last update, the
\* lag is reduced once per update, the blend starts from the values all
\* the updates left and uses the lag that is left, the renderer sees the
\* blend, and the exact values are back afterwards.  (The host of
\* SceneSpec moves its sprites by ten.)
C28_StepsInOrder ==
  [][Processed =>
       LET after  == AfterUpdates(live, 10, Ticks)
           before == AfterUpdates(live, 10, Ticks - 1)
           offset == Fraction(_lag', _frameDuration.v)
       IN /\ Ticks >= 1 =>
               \A n \in Visited : \A q \in Captures(properties, live[n]) :
                 q \in DOMAIN prev'[n] /\ prev'[n][q] = before[n][q]
          /\ _lag' = _lag + obs'.effective - Ticks * _frameDuration.v
          /\ obs'.before = after
          /\ obs'.blend = offset
          /\ interpolate =>
               \A n \in Visited :
                 \A q \in Blends(properties, n, live[n]) \cap DOMAIN prev'[n] :
                   obs'.seen[n][q] = Blend(prev'[n][q], after[n][q], offset)
          /\ live' = after]_vars

\* a callback 50 ms after the last sample ran three updates at 60 fps and
\* rendered with a blend factor of 0: the renderer saw the cat where it
\* was before the third update, and the cat is where the third update
\* put it
C28_Witness ==
  /\ _fps = Num(60) /\ interpolate /\ ~due
  /\ obs.at = now /\ obs.by = "interpolate" /\ obs.effective = 50 * Ms
  /\ _lag = 0 /\ obs.blend = <<0, 1>> /\ updates >= 3
  /\ prev["cat"]["x"] = AfterUpdates(Built, 10, updates - 1)["cat"]["x"]
  /\ obs.seen["cat"]["x"] = prev["cat"]["x"]
  /\ live["cat"]["x"] = AfterUpdates(Built, 10, updates)["cat"]["x"]
  /\ live["cat"]["x"] # prev["cat"]["x"]

\* the snapshots of the visited nodes are the values lv of their enabled
\* properties
CapturedFrom(pv, lv) ==
  \A n \in Visited : \A q \in Captures(properties, lv[n]) :
    q \in DOMAIN pv[n] /\ pv[n][q] = lv[n][q]

\* C29 as stated: every call of the host's update comes right after a
\* capture, in the capped and in the uncapped mode: after an invocation
\* that called update, the snapshots are the values before its last
\* update.
C29_EveryUpdateAfterCapture ==
  [][(Invoked /\ Ticks >= 1) =>
       CapturedFrom(prev', AfterUpdates(live, 10, Ticks - 1))]_vars

\* C29, amended: with a frame rate, every call of update comes right after
\* a capture; with fps undefined update is called without a capture and
\* the snapshots stay as they were.
C29_CappedUpdateAfterCapture ==
  [][(Invoked /\ Ticks >= 1) =>
       IF _fps # Undefined
       THEN CapturedFrom(prev', AfterUpdates(live, 10, Ticks - 1))
       ELSE prev' = prev]_vars

\* an uncapped invocation has called update and rendered, and the
\* snapshot of the cat is still the one a capped invocation took two
\* updates ago
C29_Witness ==
  /\ _fps = Undefined /\ ~due /\ obs.at = now /\ obs.by = "uncapped"
  /\ updates >= 3
  /\ "x" \in DOMAIN prev["cat"]
  /\ prev["cat"]["x"] = AfterUpdates(Built, 10, updates - 2)["cat"]["x"]
  /\ live["cat"]["x"] = AfterUpdates(Built, 10, updates)["cat"]["x"]

\* the values before and after the k-th update of a host that moves its
\* sprites by one
BeforeUpdate(k) == AfterUpdates(Built, 1, k - 1)
AfterUpdate(k)  == AfterUpdates(Built, 1, k)

C39_StageUntouched ==
  /\ prev["stage"] = << >>
  /\ curr["stage"] = << >>
  /\ live["stage"] = Built["stage"]
  /\ renders > 0 => obs.seen["stage"] = Built["stage"]

\* every group is enabled, two updates were captured and rendered, the
\* group below the stage has its snapshots and the stage has none
C39_Witness ==
  /\ properties = Groups /\ interpolate /\ renders >= 2 /\ updates >= 2
  /\ obs.by = "interpolate"
  /\ "x" \in DOMAIN prev["group"] /\ "x" \in DOMAIN curr["group"]
  /\ prev["stage"] = << >>

\* the properties of the enabled groups that a node has
Enabled(n) == {q \in PropsOf(n) : GroupOf(q) \in properties}

\* C32: with the tile group enabled, a node without tilePosition and
\* tileScale is skipped for them by capture, blend and restore: after an
\* invocation that ran a tick and rendered, the node has no snapshot and no
\* saved value of a tile property, the properties stay absent, and the
\* node's other enabled groups have their snapshots and saved values and
\* their exact values back.
C32_NoTilePropertiesSkipped ==
  [][(Processed /\ Ticks >= 1 /\ "tile" \in properties) =>
       \A n \in Visited \ {"tiles"} :
         /\ DOMAIN prev'[n] = Enabled(n)
         /\ interpolate => DOMAIN curr'[n] = Blends(properties, n, live[n])
         /\ DOMAIN live'[n] = PropsOf(n)
         /\ GroupProps("tile") \cap DOMAIN prev'[n] = {}
         /\ \A q \in Enabled(n) :
              /\ prev'[n][q] = AfterUpdates(live, 10, Ticks - 1)[n][q]
              /\ live'[n][q] = AfterUpdates(live, 10, Ticks)[n][q]]_vars

\* every group is enabled and a tick was captured and rendered: the tiling
\* sprite has its tile snapshots, the cat has none and has the snapshot of
\* its alpha
C32_Witness ==
  /\ properties = Groups /\ interpolate /\ obs.by = "interpolate"
  /\ updates >= 1
  /\ "tiles" \in Visited
  /\ "tilePosition.x" \in DOMAIN prev["tiles"]
  /\ "tileScale.y" \in DOMAIN curr["tiles"]
  /\ "tilePosition.x" \notin DOMAIN prev["cat"]
  /\ "tileScale.y" \notin DOMAIN curr["cat"]
  /\ "alpha" \in DOMAIN prev["cat"] /\ "alpha" \in DOMAIN curr["cat"]

\* C38: an invocation with fps undefined leaves the lag, the time of the
\* last sample, the stored blend factor, the render deadline and every
\* snapshot as they were; so the first invocation after fps is set back to
\* a number measures its elapsed time from the last sample a capped
\* invocation (or the constructor) took, not from the last uncapped
\* invocation.
C38_UncappedLeavesTimingAlone ==
  [][/\ (Rendered /\ _fps = Undefined) =>
          UNCHANGED <<_lag, _startTime, _lagOffset, _renderStartTime, prev>>
     /\ (Processed /\ obs.by = "uncapped") =>
          /\ obs'.effective = Clamp(now - _startTime, _frameDuration.v)
          /\ _startTime <= obs.at
          /\ _startTime' = now]_vars

\* three invocations 25 ms apart, the second one uncapped: the third, with
\* fps back at 60, has measured the 50 ms since the first
C38_Witness ==
  /\ _fps = Num(60) /\ ~due /\ obs.at = now /\ obs.by = "interpolate"
  /\ advances = 2 /\ renders = 3
  /\ obs.effective = 50 * Ms
  /\ _startTime = now
  /\ updates = 4
  /\ "x" \in DOMAIN prev["cat"]

\* C34: a render cap does not change the timing of the ticks: an invocation
\* the cap skips leaves the time of the last sample, the lag and the count
\* of updates alone, the next processed one adds all the time since the
\* last sample to the lag, and so, with no sample above 1000 ms, the
\* updates run times the frame duration plus the lag is the time from the
\* construction to the last sample, as without a cap.
C34_CapKeepsTickTiming ==
  /\ [](_fps # Undefined =>
          updates * _frameDuration.v + _lag = _startTime)
  /\ [][/\ (Invoked /\ SkippedByCap) =>
             UNCHANGED <<_startTime, _lag, updates>>
        /\ Processed =>
             /\ obs'.effective = now - _startTime
             /\ _startTime' = now
             /\ updates' * _frameDuration.v + _lag' =
                  updates * _frameDuration.v + _lag + (now - _startTime)
       ]_vars

\* under a cap a processed invocation has followed a skipped one and has
\* run the ticks of the time that passed over both
C34_Witness ==
  /\ _fps = Num(60) /\ _renderFps # Undefined /\ ~due
  /\ Len(calls) >= 4
  /\ Last.how = "processed" /\ Last.at = now
  /\ calls[Len(calls) - 1].how = "skipped"
  /\ calls[Len(calls) - 1].at > 0
  /\ obs.effective >= 32 * Ms
  /\ updates >= 3
  /\ _lag > 0
  /\ spikes = 0

\* C37 as stated: for every positive frame rate, the elapsed time a
\* processed invocation adds to the lag is at most the elapsed time it
\* measured.
C37_ClampNeverAddsTime ==
  [][Processed => obs'.effective <= now - _startTime]_vars

\* C37, amended: a measured time of at most 1000 ms is added as it is; a
\* longer one is replaced by the frame duration, which is less than the
\* measured time for every frame rate of at least one, and more than the
\* measured time when the rate is below one and the measured time is
\* between 1000 ms and the frame duration.
C37_ClampAddsFrameDuration ==
  [][Processed =>
       LET elapsed == now - _startTime IN
       /\ ~Spike(elapsed) => obs'.effective = elapsed
       /\ Spike(elapsed) => obs'.effective = _frameDuration.v
       /\ _frameDuration.v <= 1000 * Ms => obs'.effective <= elapsed]_vars

\* a stall of 1001 ms at 60 updates a second was added to the lag as one
\* frame duration
C37_Witness ==
  /\ _fps = Num(60) /\ ~due /\ obs.at = now /\ obs.by = "interpolate"
  /\ spikes = 1 /\ renders = 2
  /\ obs.effective = _frameDuration.v
  /\ obs.effective < 1001 * Ms

\* the nodes below the stage: the children of the stage, their children,
\* and so on
RECURSIVE Reach(_, _)
Reach(ch, found) ==
  LET more == found \cup {c \in Nodes : \E n \in found : c \in Range(ch[n])}
  IN IF more = found THEN found ELSE Reach(ch, more)

Descendants(ch) == Reach(ch, Range(ch["stage"]))

\* the nodes that have a snapshot, and those that have a saved value
Snapshot   == {n \in Nodes : prev[n] # << >>}
SavedNodes == {n \in Nodes : curr[n] # << >>}

\* C33: each traversal visits every node below the stage exactly once, a
\* parent before its children and the children in their order, whatever
\* the depth and the fan-out of the tree; and capture, blend and restore
\* visit the same nodes: once an update has run, the nodes with a snapshot
\* and the nodes with a saved value are the nodes below the stage, and
\* every live value is the exact one again.
C33_TraversalsVisitEveryNodeOnce ==
  LET t == Traversal(children) IN
  /\ Range(t) = Descendants(children)
  /\ Len(t) = Cardinality(Descendants(children))
  /\ \A i, j \in DOMAIN t : t[j] \in Range(children[t[i]]) => i < j
  /\ \A n \in Nodes : \A i, j \in DOMAIN children[n] :
       i < j => \E k, l \in DOMAIN t :
                  k < l /\ t[k] = children[n][i] /\ t[l] = children[n][j]
  /\ updates > 0 =>
       /\ Snapshot = Descendants(children)
       /\ SavedNodes = Descendants(children)
       /\ live = AfterUpdates(Built, 1, updates)

\* a chain three deep below the stage, and a stage with two children of
\* which one has a child, each captured, blended and restored
C33_Witness ==
  /\ updates >= 2 /\ renders >= 2
  /\ \/ children = [n \in Nodes |->
                      CASE n = "stage" -> <<"cat">>
                        [] n = "cat"   -> <<"tiles">>
                        [] n = "tiles" -> <<"group">>
                        [] OTHER -> << >>]
     \/ children = [n \in Nodes |->
                      CASE n = "stage" -> <<"tiles", "group">>
                        [] n = "tiles" -> <<"cat">>
                        [] OTHER -> << >>]
  /\ Snapshot = Others

\* the slot of property q of node n is in both tables or in neither, and
\* holds the same value
SameSlot(old, new, n, q) ==
  /\ (q \in DOMAIN new[n]) = (q \in DOMAIN old[n])
  /\ q \in DOMAIN old[n] => new[n][q] = old[n][q]

\* C31: the capture copies, for every enabled group of every visited node,
\* the live value into the node's snapshot and changes no live value: after
\* an invocation the live values are those the host's updates left, and
\* after a capped one that ran a tick the snapshots of the enabled groups
\* are the values before its last update.  For a disabled group capture,
\* blend and restore write neither the live value nor a snapshot nor a
\* saved value: the slots it had before the invocation are as they were.
C31_CaptureCopiesEnabledGroups ==
  [][Invoked =>
       /\ live' = AfterUpdates(live, 1, Ticks)
       /\ (Processed /\ Ticks >= 1) =>
            CapturedFrom(prev', AfterUpdates(live, 1, Ticks - 1))
       /\ \A n \in Nodes : \A q \in Props :
            GroupOf(q) \notin properties =>
              SameSlot(prev, prev', n, q) /\ SameSlot(curr, curr', n, q)]_vars

\* the position group was disabled after a capture of it: a later tick has
\* captured the rotation of the cat and left the snapshot of its x, now two
\* updates old, as it was
C31_Witness ==
  /\ properties = Groups \ {"position"} /\ _fps = Num(60)
  /\ obs.by = "interpolate" /\ obs.at = now /\ ~due
  /\ updates >= 2
  /\ "x" \in DOMAIN prev["cat"]
  /\ prev["cat"]["x"] = BeforeUpdate(updates - 1)["cat"]["x"]
  /\ prev["cat"]["rotation"] = BeforeUpdate(updates)["cat"]["rotation"]
  /\ prev["cat"]["alpha"] = BeforeUpdate(updates)["cat"]["alpha"]
  /\ live["cat"]["x"] = AfterUpdate(updates)["cat"]["x"]

\* v is a or b or a value between them
Between(v, a, b) ==
  \/ AtMost(a, v) /\ AtMost(v, b)
  \/ AtMost(b, v) /\ AtMost(v, a)

\* C36 as stated: in every render, the value the renderer sees of an
\* enabled property of a node that has a snapshot of it lies between the
\* node's exact value before the most recent update and its exact value
\* after it, whatever groups were disabled and enabled again and however
\* interpolation was switched between the invocations.
C36_SeenBetweenLastUpdate ==
  [][(Rendered /\ updates' >= 1) =>
       \A n \in Visited : \A q \in Enabled(n) \cap DOMAIN prev'[n] :
         Between(obs'.seen[n][q], BeforeUpdate(updates')[n][q],
                 AfterUpdate(updates')[n][q])]_vars

\* C35 as stated: the while loop of an invocation terminates for every
\* frame rate the instance accepts: an invocation that has entered the
\* loop leaves it, after finitely many calls of update, and renders; every
\* turn of the loop lowers the lag, which is what makes its test fail in
\* the end.
C35_LoopTerminates ==
  /\ (pc = "loop") ~> (pc = "idle")
  /\ [][(pc = "loop" /\ pc' = "loop") => _lag' < _lag]_vars

====
